---- MODULE Spec2Model ----
(***************************************************************************)
(* Model of the alchemind_openai native bridge (lib.rs): the four NIFs     *)
(* complete_chat, process_completion_chunk (stream_chat_chunk),            *)
(* transcribe_audio and text_to_speech (synthesize_speech), the client     *)
(* handle's mutex, and the notifications sent to the caller process.       *)
(***************************************************************************)
EXTENDS Integers, Sequences, FiniteSets, TLC

\* ------------------------------------------------------------------ sizes

\* `for _ in 0..10`: the number of stream polls of one invocation.
FrameCap == 10
\* `audio_binary.len() < 10`: the smallest accepted audio buffer.
MinAudioLen == 10

\* Longest stub stream (in items), most choices in one frame, most calls one
\* caller issues.
MaxFrames == 12
MaxChoices == 2
MaxCalls == 2

Procs == {"p1", "p2"}

\* ------------------------------------------------------------ host values

\* A host term found under an option key (or the key missing altogether).
Missing == [t |-> "missing", v |-> ""]
AtomTerm == [t |-> "atom", v |-> "nil"]
Str(s) == [t |-> "str", v |-> s]
Flt(s) == [t |-> "float", v |-> s]
IntTerm == [t |-> "int", v |-> "7"]

\* An Option<String> / Option<f32> held as text.
None == [some |-> FALSE, v |-> ""]
Some(s) == [some |-> TRUE, v |-> s]

\* NifResult of a call; tag "none" while the call has not returned. An error
\* carries its fixed message v, the embedded provider or decoder text
\* `detail`, and the buffer length n that "Audio binary too small" prints.
NoResult == [tag |-> "none", v |-> "", detail |-> "", n |-> 0]
Ok(v) == [tag |-> "ok", v |-> v, detail |-> "", n |-> 0]
Err(v, detail) == [tag |-> "error", v |-> v, detail |-> detail, n |-> 0]
ErrLen(v, n) == [tag |-> "error", v |-> v, detail |-> "", n |-> n]
\* A panic inside the NIF (an unwrap on Err): the host call raises.
Panic == [tag |-> "panic", v |-> "nif_panicked", detail |-> "", n |-> 0]

\* ------------------------------------------------------- message translation

\* match msg.role.as_str(): the provider message variant of a role string.
RoleOf(role) ==
    IF role = "system" THEN "system"
    ELSE IF role = "assistant" THEN "assistant"
    ELSE "user"

\* The `for msg in messages` loop: one provider message per host message, in order.
TranslateMessages(msgs) ==
    [k \in 1..Len(msgs) |-> [variant |-> RoleOf(msgs[k].role), content |-> msgs[k].content]]

\* CreateChatCompletionRequestArgs ... .build()
BuildChatRequest(msgs, model, streaming) ==
    [model |-> model, messages |-> TranslateMessages(msgs), stream |-> streaming]

MsgLists ==
    { << [role |-> "user", content |-> "hello"] >>,
      << [role |-> "system", content |-> "be brief"], [role |-> "tool", content |-> "hello"] >> }

\* ------------------------------------------------------------ stub streams

\* One choice of a stream frame: delta.content (has = FALSE: None) and finish_reason.
Choice(has, content, finish) == [has |-> has, content |-> content, finish |-> finish]

FrameItem(choices) == [kind |-> "frame", choices |-> choices]
ErrorItem == [kind |-> "error", choices |-> << >>]
EndItem == [kind |-> "end", choices |-> << >>]

\* Frame number f of a stub stream: one choice per entry of `layout` (TRUE: the
\* choice's delta has content), the content tagged with its place <<f, c>>;
\* `fin`: the last choice carries a finish reason.
MkFrame(f, layout, fin) ==
    FrameItem([c \in 1..Len(layout) |->
                  Choice(layout[c], <<f, c>>, fin /\ c = Len(layout))])

\* A stub stream of n items: frames of the given layout, a finish reason in
\* frame finishAt (0: none), a transport error in place of item errAt (0: none).
MkScript(n, layout, finishAt, errAt) ==
    [f \in 1..n |-> IF f = errAt THEN ErrorItem ELSE MkFrame(f, layout, f = finishAt)]

Layouts ==
    { [c \in 1..k |-> TRUE] : k \in 0..MaxChoices } \cup { << FALSE >> }

Scripts ==
    UNION { { MkScript(n, lay, fin, e) : lay \in Layouts, fin \in 0..n, e \in 0..n }
            : n \in 0..MaxFrames }

\* stream.next().await at cursor pos: Some(Ok(frame)), Some(Err(e)) or None.
StreamNext(s, pos) == IF pos + 1 > Len(s) THEN EndItem ELSE s[pos + 1]

\* ------------------------------------------------- the streaming read loop

\* Locals of one process_completion_chunk call inside block_on.
\*   i: loop iterations run; pos: the stream's cursor; chunks, is_done: as in
\*   the code; ret: "" while looping, "ok" for Ok((chunks, is_done)), else the
\*   Err message.
NoLoc == [i |-> 0, pos |-> 0, chunks |-> << >>, is_done |-> FALSE, ret |-> ""]

\* Mutant of CollectChoices: a fragment is put in front of those collected.
RECURSIVE CollectChoicesPrepend(_, _, _)
CollectChoicesPrepend(choices, c, acc) ==
    IF c > Len(choices) THEN acc
    ELSE CollectChoicesPrepend(choices, c + 1,
            [chunks |-> IF choices[c].has
                        THEN << choices[c].content >> \o acc.chunks
                        ELSE acc.chunks,
             is_done |-> acc.is_done \/ choices[c].finish])

\* `for choice in response.choices`, from choice c on: push the content, note a finish reason.
RECURSIVE CollectChoices(_, _, _)
CollectChoices(choices, c, acc) ==
    IF c > Len(choices) THEN acc
    ELSE CollectChoices(choices, c + 1,
            [chunks |-> IF choices[c].has
                        THEN Append(acc.chunks, choices[c].content)
                        ELSE acc.chunks,
             is_done |-> acc.is_done \/ choices[c].finish])

\* One iteration of `for _ in 0..10 { match stream.next().await ... }`.
PollOnce(l, item) ==
    IF item.kind = "frame" THEN
        LET acc == CollectChoices(item.choices, 1, [chunks |-> l.chunks, is_done |-> l.is_done])
        IN  [l EXCEPT !.i = l.i + 1, !.pos = l.pos + 1,
                      !.chunks = acc.chunks, !.is_done = acc.is_done,
                      !.ret = IF l.i + 1 = FrameCap THEN "ok" ELSE ""]
    ELSE IF item.kind = "error" THEN
        [l EXCEPT !.i = l.i + 1, !.pos = l.pos + 1, !.ret = "Stream error"]
    ELSE
        [l EXCEPT !.i = l.i + 1, !.is_done = TRUE, !.ret = "ok"]

\* The whole loop over stream s from locals l.
RECURSIVE ReadLoop(_, _)
ReadLoop(s, l) ==
    IF l.ret # "" THEN l ELSE ReadLoop(s, PollOnce(l, StreamNext(s, l.pos)))

\* A notification sent with env.send to the caller.
Note(tag, chunk, msg, ref) == [tag |-> tag, chunk |-> chunk, msg |-> msg, ref |-> ref]

RECURSIVE ChunkNotes(_, _, _)
ChunkNotes(chunks, k, ref) ==
    IF k > Len(chunks) THEN << >>
    ELSE << Note("stream_chunk", chunks[k], "", ref) >> \o ChunkNotes(chunks, k + 1, ref)

\* Mutant of Deliver: a failed streaming block sends nothing.
DeliverSilentError(l, ref) ==
    IF l.ret = "ok" THEN
        ChunkNotes(l.chunks, 1, ref)
        \o (IF l.is_done THEN << Note("stream_done", <<0, 0>>, "", ref) >> ELSE << >>)
    ELSE
        << >>

\* `match result { Ok((chunks, is_done)) => ..., Err(error_msg) => ... }`:
\* the notifications one call sends, in order.
Deliver(l, ref) ==
    IF l.ret = "ok" THEN
        ChunkNotes(l.chunks, 1, ref)
        \o (IF l.is_done THEN << Note("stream_done", <<0, 0>>, "", ref) >> ELSE << >>)
    ELSE
        << Note("stream_error", <<0, 0>>, l.ret, ref) >>

\* --------------------------------------------------------- chat completion

\* A provider reply to chat().create: Ok(completion) with its choices'
\* message.content, or Err(e).
ChatOk(choices) == [ok |-> TRUE, choices |-> choices, err |-> ""]
ChatErr(e) == [ok |-> FALSE, choices |-> << >>, err |-> e]

ChatResponses ==
    { ChatOk(<< >>), ChatOk(<< Some("hi") >>), ChatOk(<< None >>),
      ChatOk(<< Some("yo"), Some("hi") >>), ChatErr("503") }

\* Mutant of CompleteChatResult: the last choice is returned, not the first.
CompleteChatResultLast(resp) ==
    IF resp.ok THEN
        IF Len(resp.choices) > 0 THEN
            IF resp.choices[Len(resp.choices)].some
            THEN Ok(resp.choices[Len(resp.choices)].v) ELSE Ok("")
        ELSE Err("No completion choices returned", "")
    ELSE Err("API request failed", resp.err)

\* `match response { ... }` of complete_chat.
CompleteChatResult(resp) ==
    IF resp.ok THEN
        IF Len(resp.choices) > 0 THEN
            IF resp.choices[1].some THEN Ok(resp.choices[1].v) ELSE Ok("")
        ELSE Err("No completion choices returned", "")
    ELSE Err("API request failed", resp.err)

\* ------------------------------------------------------------ option decoding

\* `if let Some(term) = opts.get(k) { if term.is_atom() { default } else
\* { term.decode::<String>() } } else { default }`; err = TRUE: the decode failed.
DecodeStringOr(term, default) ==
    IF term.t = "missing" \/ term.t = "atom" THEN [err |-> FALSE, v |-> default]
    ELSE IF term.t = "str" THEN [err |-> FALSE, v |-> term.v]
    ELSE [err |-> TRUE, v |-> ""]

\* The same with None as the default (language, prompt).
DecodeOptString(term) ==
    IF term.t = "missing" \/ term.t = "atom" THEN [err |-> FALSE, v |-> None]
    ELSE IF term.t = "str" THEN [err |-> FALSE, v |-> Some(term.v)]
    ELSE [err |-> TRUE, v |-> None]

\* term.decode::<f32>() with None as the default (temperature, speed); the
\* terms tried under these keys are floats and strings.
DecodeOptFloat(term) ==
    IF term.t = "missing" \/ term.t = "atom" THEN [err |-> FALSE, v |-> None]
    ELSE IF term.t = "float" THEN [err |-> FALSE, v |-> Some(term.v)]
    ELSE [err |-> TRUE, v |-> None]

\* match response_format.as_str() of transcribe_audio.
AudioFormatOf(s) ==
    IF s = "json" THEN "Json"
    ELSE IF s = "srt" THEN "Srt"
    ELSE IF s = "verbose_json" THEN "VerboseJson"
    ELSE IF s = "vtt" THEN "Vtt"
    ELSE "Text"

\* match model_str.as_str() of text_to_speech.
SpeechModelOf(s) == IF s = "tts-1-hd" THEN "Tts1Hd" ELSE "Tts1"

\* Mutant of VoiceOf: the "nova" arm is missing.
VoiceOfNoNova(s) ==
    IF s = "echo" THEN "Echo"
    ELSE IF s = "fable" THEN "Fable"
    ELSE IF s = "onyx" THEN "Onyx"
    ELSE IF s = "shimmer" THEN "Shimmer"
    ELSE "Alloy"

\* match voice_str.as_str().
VoiceOf(s) ==
    IF s = "echo" THEN "Echo"
    ELSE IF s = "fable" THEN "Fable"
    ELSE IF s = "onyx" THEN "Onyx"
    ELSE IF s = "nova" THEN "Nova"
    ELSE IF s = "shimmer" THEN "Shimmer"
    ELSE "Alloy"

\* match format_str.as_str() of text_to_speech.
SpeechFormatOf(s) ==
    IF s = "opus" THEN "Opus"
    ELSE IF s = "aac" THEN "Aac"
    ELSE IF s = "flac" THEN "Flac"
    ELSE "Mp3"

\* The request a call put on the network; kind "none": no network call issued.
NoReq == [kind |-> "none"]

\* Option extraction of transcribe_audio, in the code's order; `err` is the
\* message of the first decode that failed ("" when none did).
DecodeTranscribeOpts(opts) ==
    LET m == DecodeStringOr(opts.model, "whisper-1")
        l == DecodeOptString(opts.language)
        p == DecodeOptString(opts.prompt)
        f == DecodeStringOr(opts.response_format, "text")
        t == DecodeOptFloat(opts.temperature)
    IN  [kind |-> "transcription",
         err |-> IF m.err THEN "Failed to decode model"
                 ELSE IF l.err THEN "Failed to decode language"
                 ELSE IF p.err THEN "Failed to decode prompt"
                 ELSE IF f.err THEN "Failed to decode response_format"
                 ELSE IF t.err THEN "Failed to decode temperature"
                 ELSE "",
         model |-> m.v, language |-> l.v, prompt |-> p.v,
         response_format |-> AudioFormatOf(f.v), temperature |-> t.v]

\* Option extraction of text_to_speech, in the code's order.
DecodeSpeechOpts(opts) ==
    LET m == DecodeStringOr(opts.model, "tts-1")
        v == DecodeStringOr(opts.voice, "alloy")
        f == DecodeStringOr(opts.response_format, "mp3")
        s == DecodeOptFloat(opts.speed)
    IN  [kind |-> "speech",
         err |-> IF m.err THEN "Failed to decode model"
                 ELSE IF v.err THEN "Failed to decode voice"
                 ELSE IF f.err THEN "Failed to decode response_format"
                 ELSE IF s.err THEN "Failed to decode speed"
                 ELSE "",
         model |-> SpeechModelOf(m.v), voice |-> VoiceOf(v.v),
         response_format |-> SpeechFormatOf(f.v), speed |-> s.v]

\* `match response { ... }` of transcribe_audio and of text_to_speech.
TranscribeResult(resp) ==
    IF resp.ok THEN Ok(resp.v) ELSE Err("API transcription request failed", resp.v)

SpeechResult(resp) ==
    IF resp.ok THEN Ok(resp.v) ELSE Err("API speech request failed", resp.v)

\* Option mappings tried: every key missing, then one key at a time set.
NoTranscribeOpts ==
    [model |-> Missing, language |-> Missing, prompt |-> Missing,
     response_format |-> Missing, temperature |-> Missing]

TranscribeOptSets ==
    { NoTranscribeOpts,
      [NoTranscribeOpts EXCEPT !.model = Str("whisper-2")],
      [NoTranscribeOpts EXCEPT !.model = IntTerm],
      [NoTranscribeOpts EXCEPT !.language = Str("en"), !.prompt = AtomTerm],
      [NoTranscribeOpts EXCEPT !.response_format = Str("srt")],
      [NoTranscribeOpts EXCEPT !.temperature = Str("hot")] }

AudioLens == {0, MinAudioLen - 1, MinAudioLen, MinAudioLen + 1}

TranscribeArgs ==
    { [len |-> n, opts |-> NoTranscribeOpts] : n \in AudioLens }
    \cup { [len |-> MinAudioLen, opts |-> o] : o \in TranscribeOptSets }

NoSpeechOpts ==
    [model |-> Missing, voice |-> Missing, response_format |-> Missing, speed |-> Missing]

VoiceNames == {"alloy", "echo", "fable", "onyx", "nova", "shimmer"}

VoiceTerms == {Missing, AtomTerm, IntTerm} \cup { Str(s) : s \in VoiceNames \cup {"robot"} }

SpeechOptSets ==
    { [NoSpeechOpts EXCEPT !.voice = t] : t \in VoiceTerms }
    \cup { [NoSpeechOpts EXCEPT !.model = Str("tts-1-hd"), !.response_format = Str("opus")],
           [NoSpeechOpts EXCEPT !.model = IntTerm, !.voice = Str("nova")],
           [NoSpeechOpts EXCEPT !.speed = Flt("1.5")] }

SpeechArgs == { [input |-> "hello", opts |-> o] : o \in SpeechOptSets }

\* Provider replies to audio().transcribe and audio().speech.
AudioResponses ==
    { [ok |-> TRUE, v |-> "hello world"], [ok |-> TRUE, v |-> ""], [ok |-> FALSE, v |-> "401"] }

\* ------------------------------------------------------------------ state

VARIABLES
    callers,     \* the host processes that call into the bridge
    lockHolder,  \* who holds the MutexGuard of OpenAIClientResource.client ("none": free)
    poisoned,    \* the mutex is poisoned (a holder panicked)
    pc,          \* per caller: "idle", "lock", "net", "open", "read", "deliver"
    op,          \* per caller: the NIF of its current (or, when idle, last) call
    calls,       \* per caller: calls issued so far; the latest is the correlation ref
    arg,         \* per caller: the arguments of that call
    req,         \* per caller: the request that call put on the network
    reply,       \* per caller: the provider's reply that call obtained
    stream,      \* per caller: the items of the stream that call opened
    loc,         \* per caller: the locals of the streaming block
    sent,        \* per caller: notifications sent to it under its latest ref, in order
    result,      \* per caller: what that call returned
    served       \* streams the provider has opened for this handle so far

vars == << callers, lockHolder, poisoned, pc, op, calls, arg, req, reply, stream,
           loc, sent, result, served >>

NoArg == [kind |-> "none"]
NoReply == [got |-> FALSE]
Got(r) == [got |-> TRUE, r |-> r]

\* Inputs are drawn from the full families when a single caller runs, and from
\* short lists of them when callers run side by side.
Wide == Cardinality(callers) = 1

ConcScripts ==
    { MkScript(0, << >>, 0, 0),
      MkScript(2, << TRUE >>, 2, 0),
      MkScript(2, << TRUE >>, 0, 2),
      MkScript(MaxFrames, << TRUE >>, 0, 0) }

StubStreams == IF Wide THEN Scripts ELSE ConcScripts

ChatInputs ==
    IF Wide THEN MsgLists ELSE { << [role |-> "user", content |-> "hello"] >> }

TranscribeInputs ==
    IF Wide THEN TranscribeArgs
    ELSE { [len |-> n, opts |-> NoTranscribeOpts] : n \in {MinAudioLen - 1, MinAudioLen} }

SpeechInputs ==
    IF Wide THEN SpeechArgs
    ELSE { [input |-> "hello", opts |-> [NoSpeechOpts EXCEPT !.voice = t]] :
             t \in {Missing, Str("nova")} }

InitFor(cs) ==
    /\ callers = cs
    /\ lockHolder = "none"
    /\ poisoned = FALSE
    /\ pc = [p \in Procs |-> "idle"]
    /\ op = [p \in Procs |-> "none"]
    /\ calls = [p \in Procs |-> 0]
    /\ arg = [p \in Procs |-> NoArg]
    /\ req = [p \in Procs |-> NoReq]
    /\ reply = [p \in Procs |-> NoReply]
    /\ stream = [p \in Procs |-> << >>]
    /\ loc = [p \in Procs |-> NoLoc]
    /\ sent = [p \in Procs |-> << >>]
    /\ result = [p \in Procs |-> NoResult]
    /\ served = 0

\* create_client, then every caller holding the same handle.
Init == InitFor(Procs)
\* create_client, then one caller.
InitSeq == InitFor({"p1"})

\* ------------------------------------------------------------ the mutex

\* client.lock() returns only when no guard is alive.
LockFree == lockHolder = "none"

\* Mutant of GuardAfterLock: every NIF clones the client and drops the guard.
GuardDroppedAtOnce(o, p) == "none"

\* Who holds the guard once the `let client = ...lock()...` statement is over:
\* process_completion_chunk keeps a clone and drops the guard at once, the
\* other three keep the guard in `client`.
GuardAfterLock(o, p) == IF o = "process_completion_chunk" THEN "none" ELSE p

\* The guard (if p holds one) is dropped when the NIF returns or unwinds.
Released(p) == IF lockHolder = p THEN "none" ELSE lockHolder

\* Mutant of FreshLoc: the stream cursor of the last call is kept.
KeptLoc(prev) == [NoLoc EXCEPT !.pos = prev.pos]

\* The locals a new call starts from; prev are those of the caller's last call.
FreshLoc(prev) == NoLoc

\* A NIF is entered: Runtime::new() succeeded, the call goes on to lock().
Enter(p, o, a) ==
    /\ p \in callers
    /\ pc[p] = "idle"
    /\ calls[p] < MaxCalls
    /\ calls' = [calls EXCEPT ![p] = @ + 1]
    /\ op' = [op EXCEPT ![p] = o]
    /\ arg' = [arg EXCEPT ![p] = a]
    /\ req' = [req EXCEPT ![p] = NoReq]
    /\ reply' = [reply EXCEPT ![p] = NoReply]
    /\ stream' = [stream EXCEPT ![p] = << >>]
    /\ loc' = [loc EXCEPT ![p] = FreshLoc(loc[p])]
    /\ sent' = [sent EXCEPT ![p] = << >>]
    /\ UNCHANGED << callers, lockHolder, poisoned, served >>

\* The call of p returns r (the guard, if held, is dropped).
Return(p, r) ==
    /\ pc' = [pc EXCEPT ![p] = "idle"]
    /\ result' = [result EXCEPT ![p] = r]
    /\ lockHolder' = Released(p)

\* Runtime::new() of any of the four NIFs: on Err the call returns at once.
Call(p, o, a, rtOk) ==
    /\ Enter(p, o, a)
    /\ IF rtOk
       THEN /\ pc' = [pc EXCEPT ![p] = "lock"]
            /\ result' = [result EXCEPT ![p] = NoResult]
       ELSE /\ pc' = pc
            /\ result' = [result EXCEPT ![p] = Err("Failed to create Tokio runtime", "")]

\* The `.map_err(...)?` of the message loop, by the variant being built.
MessageBuildError(variant) ==
    IF variant = "system" THEN "Failed to build system message"
    ELSE IF variant = "assistant" THEN "Failed to build assistant message"
    ELSE "Failed to build user message"

\* The message loop and the request build of complete_chat and of
\* process_completion_chunk. bad: the first message whose build() is Err
\* (0: none); buildOk: the request's build() is Ok.
ChatPrepare(msgs, bad, buildOk) ==
    IF bad > 0 THEN [go |-> FALSE, r |-> Err(MessageBuildError(RoleOf(msgs[bad].role)), "")]
    ELSE IF ~buildOk THEN [go |-> FALSE, r |-> Err("Failed to build request", "")]
    ELSE [go |-> TRUE, r |-> NoResult]

\* ------------------------------------------------------------ complete_chat

CompleteChatCall(p) ==
    \E msgs \in ChatInputs, rtOk \in BOOLEAN :
        Call(p, "complete_chat", [kind |-> "chat", messages |-> msgs, model |-> "gpt"], rtOk)

\* client.lock().unwrap(), the message loop and the request build.
CompleteChatLock(p) ==
    /\ pc[p] = "lock" /\ op[p] = "complete_chat"
    /\ LockFree
    /\ UNCHANGED << served, callers, op, calls, arg, reply, stream, loc, sent >>
    /\ IF poisoned
       THEN /\ Return(p, Panic)
            /\ UNCHANGED << poisoned, req >>
       ELSE \E bad \in 0..Len(arg[p].messages), buildOk \in BOOLEAN :
            LET pr == ChatPrepare(arg[p].messages, bad, buildOk)
            IN  IF pr.go
                THEN /\ lockHolder' = GuardAfterLock(op[p], p)
                     /\ req' = [req EXCEPT ![p] =
                            [kind |-> "chat",
                             body |-> BuildChatRequest(arg[p].messages, arg[p].model, FALSE)]]
                     /\ pc' = [pc EXCEPT ![p] = "net"]
                     /\ UNCHANGED << poisoned, result >>
                ELSE /\ Return(p, pr.r)
                     /\ UNCHANGED << poisoned, req >>

\* runtime.block_on(client.chat().create(request)) completes.
CompleteChatReturn(p) ==
    /\ pc[p] = "net" /\ op[p] = "complete_chat"
    /\ \E resp \in ChatResponses :
          /\ reply' = [reply EXCEPT ![p] = Got(resp)]
          /\ Return(p, CompleteChatResult(resp))
    /\ UNCHANGED << served, callers, poisoned, op, calls, arg, req, stream, loc, sent >>

\* ------------------------------------------------- process_completion_chunk

StreamCall(p) ==
    \E msgs \in ChatInputs, rtOk \in BOOLEAN :
        Call(p, "process_completion_chunk",
             [kind |-> "chat", messages |-> msgs, model |-> "gpt"], rtOk)

\* client.lock() with the clone, the message loop and the request build.
StreamLock(p) ==
    /\ pc[p] = "lock" /\ op[p] = "process_completion_chunk"
    /\ LockFree
    /\ UNCHANGED << served, callers, op, calls, arg, reply, stream, loc, sent >>
    /\ IF poisoned
       THEN /\ Return(p, Err("Failed to lock client", ""))
            /\ UNCHANGED << poisoned, req >>
       ELSE \E bad \in 0..Len(arg[p].messages), buildOk \in BOOLEAN :
            LET pr == ChatPrepare(arg[p].messages, bad, buildOk)
            IN  IF pr.go
                THEN /\ lockHolder' = GuardAfterLock(op[p], p)
                     /\ req' = [req EXCEPT ![p] =
                            [kind |-> "chat",
                             body |-> BuildChatRequest(arg[p].messages, arg[p].model, TRUE)]]
                     /\ pc' = [pc EXCEPT ![p] = "open"]
                     /\ UNCHANGED << poisoned, result >>
                ELSE /\ Return(p, pr.r)
                     /\ UNCHANGED << poisoned, req >>

\* client.chat().create_stream(request).await: a stream, or Err.
StreamOpen(p) ==
    /\ pc[p] = "open"
    /\ UNCHANGED << callers, lockHolder, poisoned, op, calls, arg, req, reply, sent, result >>
    /\ \/ \E s \in StubStreams :
            /\ stream' = [stream EXCEPT ![p] = s]
            /\ served' = served + 1
            /\ loc' = loc
            /\ pc' = [pc EXCEPT ![p] = "read"]
       \/ /\ loc' = [loc EXCEPT ![p].ret = "Failed to create stream"]
          /\ pc' = [pc EXCEPT ![p] = "deliver"]
          /\ UNCHANGED << stream, served >>

\* One stream.next().await of the loop.
StreamPoll(p) ==
    /\ pc[p] = "read"
    /\ LET l == PollOnce(loc[p], StreamNext(stream[p], loc[p].pos))
       IN  /\ loc' = [loc EXCEPT ![p] = l]
           /\ pc' = [pc EXCEPT ![p] = IF l.ret = "" THEN "read" ELSE "deliver"]
    /\ UNCHANGED << callers, lockHolder, poisoned, op, calls, arg, req, reply, stream,
                    sent, result, served >>

\* block_on is over: the sends, then Ok(atoms::ok()).
StreamDeliver(p) ==
    /\ pc[p] = "deliver"
    /\ sent' = [sent EXCEPT ![p] = @ \o Deliver(loc[p], calls[p])]
    /\ Return(p, Ok("ok"))
    /\ UNCHANGED << served, callers, poisoned, op, calls, arg, req, reply, stream, loc >>

\* --------------------------------------------------------- transcribe_audio

TranscribeCall(p) ==
    \E a \in TranscribeInputs, rtOk \in BOOLEAN :
        Call(p, "transcribe_audio", [kind |-> "audio", len |-> a.len, opts |-> a.opts], rtOk)

\* Mutant of TranscribePrepare: a buffer of exactly MinAudioLen bytes is rejected.
TranscribePrepareOffByOne(a, clockOk, buildOk) ==
    LET d == DecodeTranscribeOpts(a.opts)
    IN  IF a.len <= MinAudioLen THEN [go |-> FALSE, r |-> ErrLen("Audio binary too small", a.len)]
        ELSE IF d.err # "" THEN [go |-> FALSE, r |-> Err(d.err, "")]
        ELSE IF ~clockOk THEN [go |-> FALSE, r |-> Panic]
        ELSE IF ~buildOk THEN [go |-> FALSE, r |-> Err("Failed to build request", "")]
        ELSE [go |-> TRUE, r |-> NoResult]

\* What transcribe_audio does between lock() and block_on, the guard held:
\* the length check, the option extraction, the file name and the build.
\* clockOk: SystemTime::now().duration_since(UNIX_EPOCH) is Ok (else the
\* unwrap panics); buildOk: request.build() is Ok.
TranscribePrepare(a, clockOk, buildOk) ==
    LET d == DecodeTranscribeOpts(a.opts)
    IN  IF a.len < MinAudioLen THEN [go |-> FALSE, r |-> ErrLen("Audio binary too small", a.len)]
        ELSE IF d.err # "" THEN [go |-> FALSE, r |-> Err(d.err, "")]
        ELSE IF ~clockOk THEN [go |-> FALSE, r |-> Panic]
        ELSE IF ~buildOk THEN [go |-> FALSE, r |-> Err("Failed to build request", "")]
        ELSE [go |-> TRUE, r |-> NoResult]

TranscribeLock(p) ==
    /\ pc[p] = "lock" /\ op[p] = "transcribe_audio"
    /\ LockFree
    /\ UNCHANGED << served, callers, op, calls, arg, reply, stream, loc, sent >>
    /\ IF poisoned
       THEN /\ Return(p, Err("Failed to lock client", ""))
            /\ UNCHANGED << poisoned, req >>
       ELSE \E clockOk \in BOOLEAN, buildOk \in BOOLEAN :
            LET pr == TranscribePrepare(arg[p], clockOk, buildOk)
            IN  IF pr.go
                THEN /\ lockHolder' = GuardAfterLock(op[p], p)
                     /\ req' = [req EXCEPT ![p] = DecodeTranscribeOpts(arg[p].opts)]
                     /\ pc' = [pc EXCEPT ![p] = "net"]
                     /\ UNCHANGED << poisoned, result >>
                ELSE /\ Return(p, pr.r)
                     \* a panic unwinds through the live guard and poisons the mutex
                     /\ poisoned' = (pr.r.tag = "panic")
                     /\ req' = req

\* runtime.block_on(client.audio().transcribe(request)) completes.
TranscribeReturn(p) ==
    /\ pc[p] = "net" /\ op[p] = "transcribe_audio"
    /\ \E resp \in AudioResponses :
          /\ reply' = [reply EXCEPT ![p] = Got(resp)]
          /\ Return(p, TranscribeResult(resp))
    /\ UNCHANGED << served, callers, poisoned, op, calls, arg, req, stream, loc, sent >>

\* ----------------------------------------------------------- text_to_speech

SpeechCall(p) ==
    \E a \in SpeechInputs, rtOk \in BOOLEAN :
        Call(p, "text_to_speech", [kind |-> "speech", input |-> a.input, opts |-> a.opts], rtOk)

\* What text_to_speech does between lock() and block_on.
SpeechPrepare(a, buildOk) ==
    LET d == DecodeSpeechOpts(a.opts)
    IN  IF d.err # "" THEN [go |-> FALSE, r |-> Err(d.err, "")]
        ELSE IF ~buildOk THEN [go |-> FALSE, r |-> Err("Failed to build speech request", "")]
        ELSE [go |-> TRUE, r |-> NoResult]

SpeechLock(p) ==
    /\ pc[p] = "lock" /\ op[p] = "text_to_speech"
    /\ LockFree
    /\ UNCHANGED << served, callers, op, calls, arg, reply, stream, loc, sent, poisoned >>
    /\ IF poisoned
       THEN /\ Return(p, Err("Failed to lock client", ""))
            /\ req' = req
       ELSE \E buildOk \in BOOLEAN :
            LET pr == SpeechPrepare(arg[p], buildOk)
            IN  IF pr.go
                THEN /\ lockHolder' = GuardAfterLock(op[p], p)
                     /\ req' = [req EXCEPT ![p] = DecodeSpeechOpts(arg[p].opts)]
                     /\ pc' = [pc EXCEPT ![p] = "net"]
                     /\ result' = result
                ELSE /\ Return(p, pr.r)
                     /\ req' = req

\* runtime.block_on(client.audio().speech(request)) completes.
SpeechReturn(p) ==
    /\ pc[p] = "net" /\ op[p] = "text_to_speech"
    /\ \E resp \in AudioResponses :
          /\ reply' = [reply EXCEPT ![p] = Got(resp)]
          /\ Return(p, SpeechResult(resp))
    /\ UNCHANGED << served, callers, poisoned, op, calls, arg, req, stream, loc, sent >>

\* --------------------------------------------------------- specifications

Next ==
    \E p \in Procs :
        \/ CompleteChatCall(p)
        \/ CompleteChatLock(p)
        \/ CompleteChatReturn(p)
        \/ StreamCall(p)
        \/ StreamLock(p)
        \/ StreamOpen(p)
        \/ StreamPoll(p)
        \/ StreamDeliver(p)
        \/ TranscribeCall(p)
        \/ TranscribeLock(p)
        \/ TranscribeReturn(p)
        \/ SpeechCall(p)
        \/ SpeechLock(p)
        \/ SpeechReturn(p)

\* Two callers sharing one handle.
Spec == Init /\ [][Next]_vars
\* One caller, every stub stream of the family.
SpecSeq == InitSeq /\ [][Next]_vars

\* ------------------------------------------------------ what the claims read

\* p's latest call was process_completion_chunk and it has returned.
StreamReturned(p) ==
    p \in callers /\ pc[p] = "idle" /\ op[p] = "process_completion_chunk"
    /\ result[p].tag # "none"

\* That call reached block_on (the runtime, the lock and the request build succeeded).
ReachedStreaming(p) == req[p].kind = "chat"

IsTerminal(n) == n.tag = "stream_done" \/ n.tag = "stream_error"

Terminals(ns) == Cardinality({ k \in 1..Len(ns) : IsTerminal(ns[k]) })
Chunks(ns) == Cardinality({ k \in 1..Len(ns) : ns[k].tag = "stream_chunk" })

\* Stream arrival order of two fragments tagged <<frame, choice>>.
Before(a, b) == a[1] < b[1] \/ (a[1] = b[1] /\ a[2] < b[2])

\* The fragments of the first n items of s (all of them frames).
Fragments(s, n) ==
    { << f, c >> \in (1..n) \X (1..(MaxChoices + 1)) :
        c <= Len(s[f].choices) /\ s[f].choices[c].has }

\* ---------------------------------------------------------------- claims

\* C1: every process_completion_chunk call that reaches the streaming phase
\* sends exactly one terminal notification (done or error), whatever the
\* stream yields.
C1_ExactlyOneTerminal ==
    \A p \in Procs :
        StreamReturned(p) /\ ReachedStreaming(p) => Terminals(sent[p]) = 1

\* C2: the chunk notifications of one call are in stream arrival order (frame
\* order, then choice order), they are the fragments of the frames read, they
\* carry the call's ref, and none follows the call's terminal notification.
C2_ChunksInArrivalOrder ==
    \A p \in Procs :
        LET ns == sent[p]
        IN  /\ \A j \in 1..Len(ns), k \in 1..Len(ns) :
                  j < k =>
                    /\ ns[j].tag = "stream_chunk" /\ ns[k].tag = "stream_chunk"
                          => Before(ns[j].chunk, ns[k].chunk)
                    /\ ~IsTerminal(ns[j])
            /\ \A k \in 1..Len(ns) : ns[k].ref = calls[p]
            /\ StreamReturned(p) /\ loc[p].ret = "ok" =>
                  { ns[k].chunk : k \in { j \in 1..Len(ns) : ns[j].tag = "stream_chunk" } }
                    = Fragments(stream[p], loc[p].pos)

\* C2 witness: a call has sent chunks of two frames and of two choices of one
\* frame, then done.
C2_Witness ==
    \E p \in Procs :
        /\ StreamReturned(p)
        /\ Len(sent[p]) >= 4
        /\ sent[p][1].tag = "stream_chunk" /\ sent[p][1].chunk = << 1, 1 >>
        /\ sent[p][2].tag = "stream_chunk" /\ sent[p][2].chunk = << 1, 2 >>
        /\ sent[p][3].tag = "stream_chunk" /\ sent[p][3].chunk = << 2, 1 >>
        /\ sent[p][Len(sent[p])].tag = "stream_done"

\* C3 as stated: when a transport error follows frames with content, the
\* fragments collected before it are delivered as chunks, in order, and only
\* then the error.
C3_ChunksBeforeError ==
    \A p \in Procs :
        StreamReturned(p) /\ loc[p].ret = "Stream error" /\ Len(loc[p].chunks) > 0 =>
            /\ Len(sent[p]) = Len(loc[p].chunks) + 1
            /\ \A k \in 1..Len(loc[p].chunks) :
                  sent[p][k] = Note("stream_chunk", loc[p].chunks[k], "", calls[p])
            /\ sent[p][Len(sent[p])].tag = "stream_error"

\* C4 as stated: one call reads at most FrameCap frames and sends at most
\* FrameCap chunk notifications before its terminal notification.
C4_AtMostCapChunks ==
    \A p \in Procs :
        /\ loc[p].i <= FrameCap
        /\ Chunks(sent[p]) <= FrameCap

\* A network exchange of p is under way.
InFlight(p) == pc[p] \in {"net", "open", "read"}

\* C5 as stated: at most one network operation (a request/response exchange
\* or an open streaming exchange) is in flight on the handle at any time.
C5_OneInFlight ==
    Cardinality({ p \in Procs : InFlight(p) }) <= 1

\* C5 amended: at most one of complete_chat, transcribe_audio and
\* text_to_speech is in its network call at any time, and it holds the lock
\* throughout; process_completion_chunk holds the lock only to clone the
\* client, so its streaming exchange runs without the lock.
C5_OneLockedInFlight ==
    /\ Cardinality({ p \in Procs : pc[p] = "net" }) <= 1
    /\ \A p \in Procs : pc[p] = "net" => lockHolder = p
    /\ \A p \in Procs : pc[p] \in {"open", "read"} => lockHolder # p

\* C5 witness: one caller is in the network call of a locking operation while
\* another is reading its stream.
C5_Witness ==
    \E p \in Procs, q \in Procs :
        /\ pc[p] = "net" /\ lockHolder = p
        /\ pc[q] = "read" /\ loc[q].i > 0

\* C6 as stated: the synchronous result of process_completion_chunk is ok
\* whatever happened.
C6_AlwaysAccepted ==
    \A p \in Procs : StreamReturned(p) => result[p] = Ok("ok")

\* C6 amended: the result is ok once the call reached the streaming phase, and
\* a failure to open or read the stream is reported by the error notification
\* alone; a failure to create the runtime, to lock the client or to build the
\* request is returned as an error at the call site, with no notification.
C6_AcceptedOnceStreaming ==
    \A p \in Procs :
        StreamReturned(p) =>
            IF ReachedStreaming(p)
            THEN /\ result[p] = Ok("ok")
                 /\ loc[p].ret # "ok" =>
                       sent[p] = << Note("stream_error", << 0, 0 >>, loc[p].ret, calls[p]) >>
                 /\ loc[p].ret = "ok" => \A k \in 1..Len(sent[p]) : sent[p][k].tag # "stream_error"
            ELSE /\ result[p].tag = "error"
                 /\ result[p].v \in { "Failed to create Tokio runtime", "Failed to lock client",
                                       "Failed to build system message",
                                       "Failed to build assistant message",
                                       "Failed to build user message",
                                       "Failed to build request" }
                 /\ sent[p] = << >>

\* C6 witness: a call whose stream yielded a transport error returned ok and
\* sent the error notification.
C6_Witness ==
    \E p \in Procs :
        /\ StreamReturned(p) /\ loc[p].ret = "Stream error"
        /\ result[p] = Ok("ok")
        /\ Len(sent[p]) = 1 /\ sent[p][1].tag = "stream_error"

\* C7: whatever calls came before, a call issues the full streaming request,
\* polls its stream from the first item on, and sends the notifications that
\* its own stream's items determine.
C7_RestartsFromFrameOne ==
    \A p \in Procs :
        /\ pc[p] \in {"open", "read", "deliver"} =>
              /\ req[p].body = BuildChatRequest(arg[p].messages, arg[p].model, TRUE)
              /\ loc[p].pos <= loc[p].i
        /\ StreamReturned(p) /\ ReachedStreaming(p)
             /\ loc[p].ret # "Failed to create stream" =>
              /\ loc[p].pos = (IF loc[p].i > Len(stream[p]) THEN Len(stream[p]) ELSE loc[p].i)
              /\ sent[p] = Deliver(ReadLoop(stream[p], NoLoc), calls[p])

\* C7 witness: a second stream was opened on the handle, longer than
\* FrameCap, and its call delivered the fragment of frame 1 first.
C7_Witness ==
    \E p \in Procs :
        /\ StreamReturned(p) /\ served >= 2 /\ calls[p] >= 2
        /\ Len(stream[p]) > FrameCap
        /\ Len(sent[p]) > 0 /\ sent[p][1].chunk = << 1, 1 >>

\* p's latest call was NIF o and it has returned.
Returned(p, o) == p \in callers /\ pc[p] = "idle" /\ op[p] = o /\ result[p].tag # "none"

\* C8: complete_chat fails with "No completion choices returned" on a reply
\* with zero choices, returns the first choice's content otherwise, and
\* returns a provider failure as an error, never as a success.
C8_FirstChoiceOrError ==
    \A p \in Procs :
        Returned(p, "complete_chat") =>
            /\ reply[p].got =>
                LET r == reply[p].r
                IN  /\ r.ok /\ Len(r.choices) = 0 =>
                          result[p].tag = "error" /\ result[p].v = "No completion choices returned"
                    /\ r.ok /\ Len(r.choices) > 0 /\ r.choices[1].some =>
                          result[p] = Ok(r.choices[1].v)
                    /\ ~r.ok =>
                          /\ result[p].tag = "error"
                          /\ result[p].v = "API request failed" /\ result[p].detail = r.err
            /\ result[p].tag = "ok" => reply[p].got /\ reply[p].r.ok /\ Len(reply[p].r.choices) > 0

\* C8 witness: a reply with the one choice "hi" was returned as "hi".
C8_Witness ==
    \E p \in Procs :
        /\ Returned(p, "complete_chat") /\ reply[p].got
        /\ reply[p].r = ChatOk(<< Some("hi") >>)
        /\ result[p] = Ok("hi")

\* C9: transcribe_audio rejects a buffer with "Audio binary too small"
\* exactly when it is shorter than MinAudioLen bytes (given the runtime and
\* the lock were obtained), without a network call; a reply obtained for a
\* longer buffer is returned unchanged.
C9_MinAudioLength ==
    \A p \in Procs :
        Returned(p, "transcribe_audio") =>
            LET early == result[p].v \in {"Failed to create Tokio runtime", "Failed to lock client"}
            IN  /\ arg[p].len < MinAudioLen =>
                      /\ req[p].kind = "none" /\ ~reply[p].got
                      /\ result[p].tag = "error"
                      /\ ~early => result[p] = ErrLen("Audio binary too small", arg[p].len)
                /\ result[p].v = "Audio binary too small" => arg[p].len < MinAudioLen
                /\ reply[p].got /\ reply[p].r.ok =>
                      arg[p].len >= MinAudioLen /\ result[p] = Ok(reply[p].r.v)

\* C9 witness: a buffer of exactly MinAudioLen bytes was transcribed and the
\* provider's text returned.
C9_Witness ==
    \E p \in Procs :
        /\ Returned(p, "transcribe_audio")
        /\ arg[p].len = MinAudioLen
        /\ reply[p].got /\ reply[p].r.ok /\ reply[p].r.v = "hello world"
        /\ result[p] = Ok("hello world")

\* C10: in text_to_speech a missing voice key and an atom under it resolve to
\* Alloy, each of the six voice names to its own variant, any other string to
\* Alloy, and none of these makes the voice decode fail.
C10_VoiceDecoding ==
    \A p \in Procs :
        p \in callers /\ op[p] = "text_to_speech" =>
            LET t == arg[p].opts.voice
            IN  /\ t.t \in {"missing", "atom", "str"} => result[p].v # "Failed to decode voice"
                /\ req[p].kind = "speech" =>
                      /\ t.t \in {"missing", "atom"} => req[p].voice = "Alloy"
                      /\ t.t = "str" =>
                            /\ t.v = "alloy" => req[p].voice = "Alloy"
                            /\ t.v = "echo" => req[p].voice = "Echo"
                            /\ t.v = "fable" => req[p].voice = "Fable"
                            /\ t.v = "onyx" => req[p].voice = "Onyx"
                            /\ t.v = "nova" => req[p].voice = "Nova"
                            /\ t.v = "shimmer" => req[p].voice = "Shimmer"
                            /\ t.v \notin VoiceNames => req[p].voice = "Alloy"

\* C10 witness: a call with voice "nova" sent a request for the Nova voice.
C10_Witness ==
    \E p \in Procs :
        /\ Returned(p, "text_to_speech")
        /\ arg[p].opts.voice = Str("nova")
        /\ req[p].kind = "speech" /\ req[p].voice = "Nova"
        /\ result[p].tag = "ok"

====
